---- MODULE Spec2Model ----
(***************************************************************************)
(* clap-file: NamedFile (an open file plus the path it was given as),     *)
(* NamedFileParser (the clap value parser that opens it) and IoError.     *)
(*                                                                         *)
(* A path is a sequence of one-character strings.  A file's contents and  *)
(* the output of read() are sequences of bytes (0..255); a String is the  *)
(* sequence of its UTF-8 bytes.  A fs::File refers to an open file        *)
(* description of the operating system, which holds the read offset.      *)
(***************************************************************************)
EXTENDS Integers, Sequences, FiniteSets, TLC

VARIABLES fs, cmdline, ofd, values, call, ret

vars == <<fs, cmdline, ofd, values, call, ret>>

(* ------------------------------ bounds -------------------------------- *)

MaxLen == 2        \* longest file, in bytes
MaxValues == 2     \* NamedFile values created in a run

(* ------------------------------ inputs -------------------------------- *)

Threads == {"main", "worker"}

\* Bytes the files are made of: 'h', and 0xC3 0xA9 (the two bytes of U+00E9).
Bytes == {104, 195, 169}

RECURSIVE SeqsUpTo(_, _)
SeqsUpTo(S, n) ==
    IF n = 0 THEN {<<>>}
    ELSE LET shorter == SeqsUpTo(S, n - 1)
         IN  shorter \cup {Append(s, x) : s \in {q \in shorter : Len(q) = n - 1}, x \in S}

Contents == SeqsUpTo(Bytes, MaxLen)

\* Paths a command line may name: a" and m and m" and a\b
Paths == { <<"a", "\"">>, <<"m">>, <<"m", "\"">>, <<"a", "\\", "b">> }

\* The path at which a regular, readable file exists.
FilePaths == { <<"a", "\"">> }

\* An entry of the file system: nothing there, or a regular file and its bytes.
NoFile == [exists |-> FALSE]
RegularFile(c) == [exists |-> TRUE, data |-> c]

NoArg == [some |-> FALSE]

\* clap::Arg as the parser sees it: its id and its value names (none set, or one).
ArgInput == [some |-> TRUE, id |-> <<"i", "n", "p", "u", "t">>, val_names |-> <<>>]
ArgInputNamed == [some |-> TRUE, id |-> <<"i", "n", "p", "u", "t">>,
                  val_names |-> << <<"I", "N", "P", "U", "T">> >>]

Args == {NoArg, ArgInput, ArgInputNamed}

\* Failures the operating system reports for a read of an open file.
OsReadErrors == {"EIO"}

(* --------------------------- pure functions --------------------------- *)

\* Display of an io::Error: the description of the cause, one token.
ErrText(err) ==
    CASE err = "ENOENT" -> <<"No such file or directory (os error 2)">>
      [] err = "EIO" -> <<"Input/output error (os error 5)">>
      [] err = "InvalidData" -> <<"stream did not contain valid UTF-8">>

\* {path:?}: the path between double quotes, with " and \ escaped by a backslash.
RECURSIVE EscapeDebug(_)
EscapeDebug(p) ==
    IF p = <<>> THEN <<>>
    ELSE LET c == Head(p)
         IN  (IF c = "\"" \/ c = "\\" THEN <<"\\", c>> ELSE <<c>>) \o EscapeDebug(Tail(p))

DebugFmt(p) == <<"\"">> \o EscapeDebug(p) \o <<"\"">>

\* "Could not open file specified at {}: {path:?}\n{err}\n"
MsgWithArg(name, p, err) ==
    <<"C","o","u","l","d"," ","n","o","t"," ","o","p","e","n"," ","f","i","l","e"," ",
      "s","p","e","c","i","f","i","e","d"," ","a","t"," ">>
    \o name \o <<":", " ">> \o DebugFmt(p) \o <<"\n">> \o ErrText(err) \o <<"\n">>

\* "Could not open file: {path:?}\n{err}\n"
MsgNoArg(p, err) ==
    <<"C","o","u","l","d"," ","n","o","t"," ","o","p","e","n"," ","f","i","l","e",":"," ">>
    \o DebugFmt(p) \o <<"\n">> \o ErrText(err) \o <<"\n">>

\* Arg::get_value_names(): None when no value name is set.
GetValueNames(arg) ==
    IF arg.val_names = <<>> THEN [some |-> FALSE]
    ELSE [some |-> TRUE, names |-> arg.val_names]

\* std::fs::File::open on the file system.
FileOpen(p) ==
    IF ~fs[p].exists THEN [ok |-> FALSE, err |-> "ENOENT"]
    ELSE [ok |-> TRUE]

\* UTF-8 validation as str::from_utf8 does it.
Utf8Width(b) ==
    IF b < 128 THEN 1
    ELSE IF b >= 194 /\ b <= 223 THEN 2
    ELSE IF b >= 224 /\ b <= 239 THEN 3
    ELSE IF b >= 240 /\ b <= 244 THEN 4
    ELSE 0

IsCont(b) == b >= 128 /\ b <= 191

SecondOk(first, b) ==
    CASE first = 224 -> b >= 160 /\ b <= 191
      [] first = 237 -> b >= 128 /\ b <= 159
      [] first = 240 -> b >= 144 /\ b <= 191
      [] first = 244 -> b >= 128 /\ b <= 143
      [] OTHER -> IsCont(b)

RECURSIVE IsUtf8From(_, _)
IsUtf8From(s, i) ==
    IF i > Len(s) THEN TRUE
    ELSE LET w == Utf8Width(s[i])
         IN  /\ w > 0
             /\ i + w - 1 <= Len(s)
             /\ w >= 2 => SecondOk(s[i], s[i + 1])
             /\ \A k \in 2..(w - 1) : IsCont(s[i + k])
             /\ IsUtf8From(s, i + w)

IsUtf8(s) == IsUtf8From(s, 1)

(* ------------------------------- state -------------------------------- *)

\* fs      the file system: what is at each path (it never changes)
\* cmdline the path the command line of the process names: the value clap
\*         hands to the parser at each occurrence of the argument
\* ofd     the open file descriptions: the path each was opened from, its
\*         read offset, and two notes: the calls that began to read it
\*         (0, 1, or 2 for more), and what they met: "fault" (a read of it
\*         failed), else "overlap" (two calls ran on it at once), else "clean"
\* values  the NamedFile values: the description `file` refers to, `path`,
\*         and a note: "pristine" (made before any read of its description,
\*         not read), "first" (pristine until its one read began), "spent"
\* call    per thread, the read()/read_to_string() call it is inside
\* ret     what the step just taken returned to its caller, if it returned

NoValue == [live |-> FALSE]
NoOfd == [open |-> FALSE]
Idle == [pc |-> "idle"]
NoRet == [op |-> "none"]

ValueIds == 1..MaxValues
OfdIds == 1..MaxValues

\* The threads of the run.
Running == DOMAIN call

LiveValues == {v \in ValueIds : values[v].live}

FreeValue == CHOOSE v \in ValueIds : ~values[v].live /\ \A w \in ValueIds : w < v => values[w].live
FreeOfd == CHOOSE o \in OfdIds : ~ofd[o].open /\ \A w \in OfdIds : w < o => ofd[w].open

\* The threads inside read()/read_to_string() on value v.
Readers(v) == {t \in Running : call[t].pc = "reading" /\ call[t].v = v}

\* The threads inside a read of the file description o.
OfdReaders(o) == {t \in Running : call[t].pc = "reading" /\ values[call[t].v].file = o}

\* The values whose File refers to the file description o.
Handles(o) == {v \in ValueIds : values[v].live /\ values[v].file = o}

\* One regular file exists, at one of FilePaths, with contents among C.
FileSystems(C) ==
    {[p \in Paths |-> IF p = e THEN RegularFile(c) ELSE NoFile] : e \in FilePaths, c \in C}

\* Nothing is open; the threads in T are outside any call.
Start(C, T) ==
    /\ fs \in FileSystems(C)
    /\ cmdline \in Paths
    /\ ofd = [o \in OfdIds |-> NoOfd]
    /\ values = [v \in ValueIds |-> NoValue]
    /\ call = [t \in T |-> Idle]
    /\ ret = NoRet

\* One thread, a file of any contents.
Init == Start(Contents, {"main"})

\* Two threads, a file of MaxLen bytes that all differ: 'h', 0xC3, 0xA9, ...
DistinctContents == {SubSeq(<<104, 195, 169, 0, 1, 2, 3, 4>>, 1, MaxLen)}

InitConc == Start(DistinctContents, Threads)

(* ------------------------- NamedFileParser ---------------------------- *)

\* What parse returns for the command-line value `value` of argument `arg`:
\* Ok (the file is open), Err (a clap::Error with its message), or a panic
\* of get_value_names().unwrap() on an argument without value names.
ParseOutcome(arg, value) ==
    LET r == FileOpen(value)
    IN  IF r.ok THEN [kind |-> "Ok", msg |-> <<>>]
        ELSE IF arg.some
             THEN LET n == GetValueNames(arg)
                  IN  IF ~n.some THEN [kind |-> "Panic", msg |-> <<>>]
                      ELSE [kind |-> "Err", msg |-> MsgWithArg(n.names[1], value, r.err)]
             ELSE [kind |-> "Err", msg |-> MsgNoArg(value, r.err)]

\* Mutant: the path is stored as the message renders it.
StoredPathEscaped(value) == EscapeDebug(value)

\* The path stored in the NamedFile: value.into(), the argument as given.
StoredPath(value) == value

\* A freshly opened file description: offset 0.
NewOfd(p) == [open |-> TRUE, src |-> p, off |-> 0, calls |-> 0, hist |-> "clean"]

\* NamedFileParser::parse for argument `arg` and the path of the command
\* line, called by a thread that is not inside a read.
Parse(t, arg) ==
    LET value == cmdline
        out == ParseOutcome(arg, value)
    IN  /\ call[t].pc = "idle"
        /\ IF out.kind = "Ok"
           THEN /\ Cardinality(LiveValues) < MaxValues
                /\ LET v == FreeValue
                       o == FreeOfd
                   IN  /\ ofd' = [ofd EXCEPT ![o] = NewOfd(value)]
                       /\ values' = [values EXCEPT ![v] =
                              [live |-> TRUE, file |-> o, path |-> StoredPath(value),
                               note |-> "pristine"]]
                       /\ ret' = [op |-> "parse", raw |-> value, arg |-> arg,
                                  kind |-> "Ok", msg |-> <<>>, opens |-> 1, v |-> v]
           ELSE /\ ret' = [op |-> "parse", raw |-> value, arg |-> arg,
                           kind |-> out.kind, msg |-> out.msg, opens |-> 1, v |-> 0]
                /\ UNCHANGED <<ofd, values>>
        /\ UNCHANGED <<fs, cmdline, call>>

\* NamedFileParser::parse_ref: value.into() copies the &OsStr, then parse.
ParseRef(t, arg) == Parse(t, arg)

(* ----------------------------- NamedFile ------------------------------ *)

\* The bytes one read of the file may deliver: any n >= 1 up to what is left.
ChunkSizes(o) == 1..(Len(fs[ofd[o].src].data) - ofd[o].off)

\* Mutant: the error is built without the path of the value.
MakeIoErrorNoPath(v, err) == [path |-> <<>>, err |-> err]

\* IoError { path: self.path.clone(), err }
MakeIoError(v, err) == [path |-> values[v].path, err |-> err]

NoError == [path |-> <<>>, err |-> "none"]

\* impl From<IoError> for io::Error
IntoIoError(e) == e.err

\* IoError::source
Source(e) == e.err

\* Mutant: the call seeks to the start of the file before it reads.
ReadFromStart(o) == 0

\* Where a call starts to read: BufReader::new(self.file()) reads on from the
\* offset of the description; nothing seeks.
ReadFrom(o) == ofd[o].off

\* read() and read_to_string() up to the first read of the file.
ReadBegin(t, v, op) ==
    LET o == values[v].file
    IN  /\ call[t].pc = "idle"
        /\ values[v].live
        /\ call' = [call EXCEPT ![t] = [pc |-> "reading", op |-> op, v |-> v, buf |-> <<>>]]
        /\ ofd' = [ofd EXCEPT ![o].off = ReadFrom(o),
                              ![o].calls = IF @ < 2 THEN @ + 1 ELSE @,
                              ![o].hist = IF @ = "clean" /\ OfdReaders(o) # {}
                                          THEN "overlap" ELSE @]
        /\ values' = [values EXCEPT ![v].note = IF @ = "pristine" THEN "first" ELSE "spent"]
        /\ ret' = NoRet
        /\ UNCHANGED <<fs, cmdline>>

\* One read of the file that delivers n bytes from the offset of the description.
ReadChunk(t, n) ==
    LET c == call[t]
        o == values[c.v].file
        data == fs[ofd[o].src].data
    IN  /\ c.pc = "reading"
        /\ n \in ChunkSizes(o)
        /\ call' = [call EXCEPT ![t].buf = @ \o SubSeq(data, ofd[o].off + 1, ofd[o].off + n)]
        /\ ofd' = [ofd EXCEPT ![o].off = @ + n]
        /\ ret' = NoRet
        /\ UNCHANGED <<fs, cmdline, values>>

\* Mutant: the bytes are returned as text without validation.
ReadResultUnchecked(c) ==
    [kind |-> "Ok", data |-> c.buf, error |-> NoError, cause |-> "none"]

\* The result of the call once read_to_end has met the end of the file.
ReadResult(c) ==
    IF c.op = "read_to_string" /\ ~IsUtf8(c.buf)
    THEN [kind |-> "Err", data |-> <<>>, error |-> MakeIoError(c.v, "InvalidData"),
          cause |-> "InvalidData"]
    ELSE [kind |-> "Ok", data |-> c.buf, error |-> NoError, cause |-> "none"]

\* What the call of frame c returns: result r, with the path of the value,
\* what its description was opened from, and the notes at the return.
Return(c, r, table) ==
    LET o == values[c.v].file
    IN  [op |-> c.op, v |-> c.v, kind |-> r.kind, data |-> r.data, error |-> r.error,
         cause |-> r.cause, path |-> values[c.v].path, src |-> table[o].src,
         nth |-> table[o].calls, hist |-> table[o].hist,
         first |-> values[c.v].note = "first",
         dup |-> Cardinality(Handles(o)) > 1]

\* The read that finds the end of the file (0 bytes): the call returns.
ReadFinish(t) ==
    LET c == call[t]
        o == values[c.v].file
    IN  /\ c.pc = "reading"
        /\ ofd[o].off = Len(fs[ofd[o].src].data)
        /\ ret' = Return(c, ReadResult(c), ofd)
        /\ call' = [call EXCEPT ![t] = Idle]
        /\ UNCHANGED <<fs, cmdline, ofd, values>>

\* A read of the file that the operating system fails: the call returns the error.
ReadFault(t, e) ==
    LET c == call[t]
        o == values[c.v].file
    IN  /\ c.pc = "reading"
        /\ ofd' = [ofd EXCEPT ![o].hist = "fault"]
        /\ ret' = Return(c, [kind |-> "Err", data |-> <<>>, error |-> MakeIoError(c.v, e),
                             cause |-> e], ofd')
        /\ call' = [call EXCEPT ![t] = Idle]
        /\ UNCHANGED <<fs, cmdline, values>>

\* Mutant: the clone opens the path again, a description of its own.
TryCloneReopen(o) ==
    [file |-> FreeOfd, table |-> [ofd EXCEPT ![FreeOfd] = NewOfd(ofd[o].src)]]

\* File::try_clone: a second handle on the same open file description.
TryClone(o) == [file |-> o, table |-> ofd]

\* impl Clone for NamedFile; try_clone may fail, and unwrap() then panics.
Clone(t, v, ok) ==
    /\ call[t].pc = "idle"
    /\ values[v].live
    /\ IF ok
       THEN /\ Cardinality(LiveValues) < MaxValues
            /\ LET w == FreeValue
                   dup == TryClone(values[v].file)
               IN  /\ values' = [values EXCEPT ![w] =
                          [live |-> TRUE, file |-> dup.file, path |-> values[v].path,
                           note |-> IF dup.table[dup.file].calls = 0
                                    THEN "pristine" ELSE "spent"]]
                   /\ ofd' = dup.table
                   /\ ret' = [op |-> "clone", kind |-> "Ok", v |-> v, w |-> w]
       ELSE /\ ret' = [op |-> "clone", kind |-> "Panic", v |-> 0, w |-> 0]
            /\ UNCHANGED <<ofd, values>>
    /\ UNCHANGED <<fs, cmdline, call>>

\* `pub path`: code that holds the value mutably assigns the field.
SetPathField(v, p) ==
    /\ values[v].live
    /\ Readers(v) = {}
    /\ values[v].path # p
    /\ values' = [values EXCEPT ![v].path = p]
    /\ ret' = NoRet
    /\ UNCHANGED <<fs, cmdline, ofd, call>>

\* The callers use the parser and the methods of NamedFile.
Next ==
    \/ \E t \in Running, arg \in Args : Parse(t, arg)
    \/ \E t \in Running, arg \in Args : ParseRef(t, arg)
    \/ \E t \in Running, v \in ValueIds, op \in {"read", "read_to_string"} : ReadBegin(t, v, op)
    \/ \E t \in Running, n \in 1..MaxLen : ReadChunk(t, n)
    \/ \E t \in Running : ReadFinish(t)
    \/ \E t \in Running, e \in OsReadErrors : ReadFault(t, e)
    \/ \E t \in Running, v \in ValueIds, ok \in BOOLEAN : Clone(t, v, ok)

\* The callers also assign the public field.
NextPub ==
    \/ Next
    \/ \E v \in ValueIds : SetPathField(v, <<"m">>)

\* The threads parse, clone and call read(), and no read of the file fails.
NextConc ==
    \/ \E t \in Running, arg \in Args : Parse(t, arg)
    \/ \E t \in Running, v \in ValueIds : ReadBegin(t, v, "read")
    \/ \E t \in Running, n \in 1..MaxLen : ReadChunk(t, n)
    \/ \E t \in Running : ReadFinish(t)
    \/ \E t \in Running, v \in ValueIds, ok \in BOOLEAN : Clone(t, v, ok)

Spec == Init /\ [][Next]_vars

SpecConc == InitConc /\ [][NextConc]_vars

SpecPub == Init /\ [][NextPub]_vars

(* ------------------------------ claims -------------------------------- *)

\* p occurs in s as a run of consecutive elements.
Contains(s, p) ==
    \E i \in 0..(Len(s) - Len(p)) : SubSeq(s, i + 1, i + Len(p)) = p

\* c is a and b shuffled together, each in its own order.
RECURSIVE IsInterleaving(_, _, _)
IsInterleaving(a, b, c) ==
    /\ Len(a) + Len(b) = Len(c)
    /\ \/ c = <<>>
       \/ a # <<>> /\ Head(a) = Head(c) /\ IsInterleaving(Tail(a), b, Tail(c))
       \/ b # <<>> /\ Head(b) = Head(c) /\ IsInterleaving(a, Tail(b), Tail(c))

\* s is text over the bytes of the files: 'h' and U+00E9 (0xC3 0xA9), in any order.
RECURSIVE IsText(_)
IsText(s) ==
    \/ s = <<>>
    \/ Head(s) = 104 /\ IsText(Tail(s))
    \/ Len(s) >= 2 /\ s[1] = 195 /\ s[2] = 169 /\ IsText(SubSeq(s, 3, Len(s)))

ParseReturned == ret.op = "parse"
CloneReturned == ret.op = "clone"
ReadReturned == ret.op \in {"read", "read_to_string"}

\* The bytes of the file the description of the returning call was opened from.
FileData == fs[ret.src].data

\* C1: parsing the path of an existing file returns Ok with a NamedFile whose
\* path is the argument as given, on a description opened from that path at
\* offset 0, and the first read() of it returns the whole file.
C1_ParseKeepsPathAndReadsAll ==
    /\ ParseReturned /\ fs[ret.raw].exists => ret.kind = "Ok"
    /\ ParseReturned /\ ret.kind = "Ok" =>
          /\ values[ret.v].path = ret.raw
          /\ ofd[values[ret.v].file].src = ret.raw
          /\ ofd[values[ret.v].file].off = 0
    /\ ret.op = "read" /\ ret.hist = "clean" /\ ret.nth = 1 =>
          ret.kind = "Ok" /\ ret.data = FileData /\ ret.src = cmdline

C1_Witness ==
    /\ ret.op = "read" /\ ret.hist = "clean" /\ ret.nth = 1 /\ ret.kind = "Ok"
    /\ ret.path = <<"a", "\"">> /\ ret.path = cmdline
    /\ ret.data = fs[cmdline].data /\ Len(ret.data) = MaxLen

\* C2 (as claimed): parsing a path at which nothing exists fails, and the
\* message of the error contains the path literally.
C2_MessageContainsPath ==
    ParseReturned /\ ~fs[ret.raw].exists =>
        /\ ret.kind # "Ok"
        /\ ret.kind = "Err" => Contains(ret.msg, ret.raw)

\* C3 (as claimed): a failed open always returns an error, never aborts; with
\* an argument the message names it, the path and the cause; without one the
\* message has the path and the cause and no name.
C3_ErrorNamesArgument ==
    ParseReturned /\ ~fs[ret.raw].exists =>
        /\ ret.kind = "Err"
        /\ Contains(ret.msg, EscapeDebug(ret.raw))
        /\ Contains(ret.msg, ErrText("ENOENT"))
        /\ ret.arg.some =>
              \/ Contains(ret.msg, ret.arg.id)
              \/ \E i \in 1..Len(ret.arg.val_names) : Contains(ret.msg, ret.arg.val_names[i])
        /\ ~ret.arg.some => ~Contains(ret.msg, ArgInput.id) /\ ~Contains(ret.msg, <<"a", "t", " ">>)

\* C4: on a value that was never cloned, read by one call at a time with no
\* failed read, the first read() returns the whole file and every later
\* read() or read_to_string() returns nothing, without error.
C4_FirstReadAllLaterReadsEmpty ==
    ReadReturned /\ ret.hist = "clean" /\ ~ret.dup =>
        /\ ret.op = "read" /\ ret.nth = 1 => ret.kind = "Ok" /\ ret.data = FileData
        /\ ret.nth = 2 => ret.kind = "Ok" /\ ret.data = <<>>

C4_Witness ==
    /\ ReadReturned /\ ret.hist = "clean" /\ ~ret.dup /\ ret.nth = 2
    /\ ret.kind = "Ok" /\ ret.data = <<>> /\ Len(FileData) = MaxLen

RacingPairs ==
    {pair \in Running \X Running :
        LET c == call[pair[1]]
            d == call[pair[2]]
        IN  /\ pair[1] # pair[2]
            /\ c.pc = "reading" /\ d.pc = "reading"
            /\ c.v # d.v
            /\ values[c.v].file = values[d.v].file
            /\ values[c.v].note = "first" /\ values[d.v].note = "first"
            /\ \A w \in Handles(values[c.v].file) \ {c.v, d.v} : values[w].note = "pristine"}

\* The thread still inside the one read of a value whose description it shares
\* with the value of the call that just returned, itself the one read of its
\* value, when no other handle has read the description.
RacedWith ==
    {t \in Running :
        /\ ret.op = "read" /\ ret.first /\ ret.hist = "overlap"
        /\ call[t].pc = "reading"
        /\ call[t].v # ret.v
        /\ values[call[t].v].file = values[ret.v].file
        /\ values[call[t].v].note = "first"
        /\ \A w \in Handles(values[ret.v].file) \ {ret.v, call[t].v} :
               values[w].note = "pristine"}

C7_TextOrPathAnnotatedError ==
    /\ ret.op = "read_to_string" /\ ret.hist = "clean" /\ ret.nth = 1 =>
          IF IsText(FileData)
          THEN ret.kind = "Ok" /\ ret.data = FileData
          ELSE ret.kind = "Err" /\ ret.error = [path |-> ret.path, err |-> "InvalidData"]
    /\ ret.op = "read" /\ ret.hist = "clean" /\ ret.nth = 1 /\ ~IsText(FileData) =>
          ret.kind = "Ok" /\ ret.data = FileData

C7_Witness ==
    /\ ret.op = "read_to_string" /\ ret.hist = "clean" /\ ret.nth = 1
    /\ ret.kind = "Err" /\ ret.error.err = "InvalidData"
    /\ Len(FileData) = MaxLen /\ ~IsText(FileData)

\* C8 (as claimed): the path of every NamedFile is the path its handle was
\* opened from, whatever the callers do with the value.
C8_PathIsOpenedPath ==
    \A v \in LiveValues : values[v].path = ofd[values[v].file].src

\* C9 (as claimed): every parse opens once and returns Ok with a NamedFile
\* of an open handle and the path, or Err with nothing made and no handle
\* left without a value.
C9_OneOpenOkOrErr ==
    ParseReturned =>
        /\ ret.opens = 1
        /\ \/ /\ ret.kind = "Ok"
              /\ values[ret.v].live
              /\ ofd[values[ret.v].file].open
              /\ values[ret.v].path = ret.raw
           \/ /\ ret.kind = "Err"
              /\ ret.v = 0
              /\ \A o \in OfdIds : ofd[o].open => Handles(o) # {}

====
